---- MODULE Spec2Model ----
(***************************************************************************)
(* A model of glassnode_util.GlassnodeConsumer: the seven per-metric       *)
(* methods, the shared request routine get_api_request, the date           *)
(* conversion string_to_unix_timestamp and the reshaping of the JSON       *)
(* response into a pandas DataFrame.                                       *)
(*                                                                         *)
(* Python strings that the code only compares (symbols, intervals, keys)   *)
(* are TLA+ strings.  Date strings, which the code parses, are sequences   *)
(* of one-character strings.  A call is split at its one blocking point:   *)
(* a method action runs the code up to requests.get, and a response action *)
(* runs the rest of get_api_request and of the method that called it.      *)
(***************************************************************************)
EXTENDS Integers, Sequences, FiniteSets, TLC

VARIABLES
    self,         \* the GlassnodeConsumer object: base_url, api_key
    tz,           \* the host's local UTC offset in seconds (used by datetime.timestamp)
    pc,           \* "idle" | "awaiting" (inside requests.get) | "done"
    method,       \* the method the caller invoked
    args,         \* the arguments of the call
    request,      \* the GET handed to requests.get in this call
    gets,         \* number of GETs issued in this call
    response,     \* what requests.get produced
    log,          \* lines printed in this call
    json_object,  \* what get_api_request gave back to its caller
    outcome,      \* how the call ended: the exception raised, or "returned"
    raisedAt,     \* the statement that raised
    errListed,    \* the values the exception's message lists
    df            \* the DataFrame the method returned

vars == <<self, tz, pc, method, args, request, gets, response, log, json_object,
          outcome, raisedAt, errListed, df>>

----------------------------------------------------------------------------
(* Bounds of the model *)

\* longest response body (number of points) the environment returns
MaxPoints == 2

----------------------------------------------------------------------------
(* Sequences *)

Range(s) == {s[i] : i \in 1..Len(s)}

Contains(s, e) == \E i \in 1..Len(s) : s[i] = e

\* Python's s[a:b] for 0 <= a <= b
Slice(s, a, b) == SubSeq(s, a + 1, IF b < Len(s) THEN b ELSE Len(s))

\* first position of e in s, 0 when absent
IndexOf(s, e) ==
    IF Contains(s, e) THEN CHOOSE i \in 1..Len(s) : s[i] = e /\ \A j \in 1..(i - 1) : s[j] # e
    ELSE 0

----------------------------------------------------------------------------
(* Static lists *)

supported_type ==
    << "BTC", "ETH", "LTC", "AAVE", "ABT", "AMPL", "ANT", "ARMOR", "BADGER", "BAL",
       "BAND", "BAT", "BIX", "BNT", "BOND", "BRD", "BUSD", "BZRX", "CELR", "CHSB",
       "CND", "COMP", "CREAM", "CRO", "CRV", "CVC", "CVP", "DAI", "DDX", "DENT", "DGX",
       "DHT", "DMG", "DODO", "DOUGH", "DRGN", "ELF", "ENG", "ENJ", "EURS", "FET", "FTT",
       "FUN", "GNO", "GUSD", "HEGIC", "HOT", "HPT", "HT", "HUSD", "INDEX", "KCS", "LAMB",
       "LBA", "LDO", "LEO", "LINK", "LOOM", "LRC", "MANA", "MATIC", "MCB", "MCO", "MFT",
       "MIR", "MKR", "MLN", "MTA", "MTL", "MX", "NDX", "NEXO", "NFTX", "NMR", "Nsure",
       "OCEAN", "OKB", "OMG", "PAY", "PERP", "PICKLE", "PNK", "PNT", "POLY", "POWR", "PPT",
       "QASH", "QKC", "QNT", "RDN", "REN", "REP", "RLC", "ROOK", "RPL", "RSR", "SAI", "SAN",
       "SNT", "SNX", "STAKE", "STORJ", "sUSD", "SUSHI", "TEL", "TOP", "UBT", "UMA", "UNI",
       "USDC", "USDK", "USDP", "USDT", "UTK", "VERI", "WaBi", "WAX", "WBTC", "WETH", "wNXM",
       "WTC", "YAM", "YFI", "ZRX" >>

supported_interval == << "", "24h", "1h", "10m", "1w", "1month" >>

----------------------------------------------------------------------------
(* Date strings and string_to_unix_timestamp *)

Digits == << "0", "1", "2", "3", "4", "5", "6", "7", "8", "9" >>

IsDigit(c) == Contains(Digits, c)

DigitVal(c) == IndexOf(Digits, c) - 1

RECURSIVE NumVal(_)
NumVal(s) == IF s = << >> THEN 0 ELSE 10 * NumVal(SubSeq(s, 1, Len(s) - 1)) + DigitVal(s[Len(s)])

AllDigits(s) == \A i \in 1..Len(s) : IsDigit(s[i])

\* positions of "-" in s
Dashes(s) == {i \in 1..Len(s) : s[i] = "-"}

IsLeap(y) == (y % 4 = 0 /\ y % 100 # 0) \/ y % 400 = 0

DaysInMonth(y, m) ==
    IF m = 2 THEN (IF IsLeap(y) THEN 29 ELSE 28)
    ELSE IF m \in {4, 6, 9, 11} THEN 30 ELSE 31

\* days from 1970-01-01 to the civil date y-m-d (proleptic Gregorian)
DaysFromCivil(y, m, d) ==
    LET yy  == IF m <= 2 THEN y - 1 ELSE y
        era == yy \div 400
        yoe == yy - era * 400
        mp  == IF m > 2 THEN m - 3 ELSE m + 9
        doy == (153 * mp + 2) \div 5 + d - 1
        doe == yoe * 365 + yoe \div 4 - yoe \div 100 + doy
    IN  era * 146097 + doe - 719468

\* the civil date <<y, m, d>> of a day count from 1970-01-01
CivilFromDays(z0) ==
    LET z   == z0 + 719468
        era == z \div 146097
        doe == z - era * 146097
        yoe == (doe - doe \div 1460 + doe \div 36524 - doe \div 146096) \div 365
        doy == doe - (365 * yoe + yoe \div 4 - yoe \div 100)
        mp  == (5 * doy + 2) \div 153
        d   == doy - (153 * mp + 2) \div 5 + 1
        m   == IF mp < 10 THEN mp + 3 ELSE mp - 9
        y   == yoe + era * 400 + (IF m <= 2 THEN 1 ELSE 0)
    IN  << y, m, d >>

\* datetime.strptime(date_string, '%Y-%m-%d'): four digits, "-", a month of one or
\* two digits in 1..12, "-", a day of one or two digits in 1..31 that exists in
\* that month, and nothing else.  [ok |-> FALSE] stands for ValueError.
strptime(s) ==
    LET ds == Dashes(s)
    IN  IF Cardinality(ds) # 2 THEN [ok |-> FALSE, y |-> 0, m |-> 0, d |-> 0]
        ELSE
          LET p1 == CHOOSE i \in ds : \A j \in ds : i <= j
              p2 == CHOOSE i \in ds : \A j \in ds : j <= i
              ys == SubSeq(s, 1, p1 - 1)
              ms == SubSeq(s, p1 + 1, p2 - 1)
              dd == SubSeq(s, p2 + 1, Len(s))
              y  == NumVal(ys)
              m  == NumVal(ms)
              d  == NumVal(dd)
              ok == /\ Len(ys) = 4 /\ AllDigits(ys) /\ y >= 1
                    /\ Len(ms) \in {1, 2} /\ AllDigits(ms) /\ m \in 1..12
                    /\ Len(dd) \in {1, 2} /\ AllDigits(dd) /\ d >= 1
                    /\ d <= DaysInMonth(y, m)
          IN  IF ok THEN [ok |-> TRUE, y |-> y, m |-> m, d |-> d]
              ELSE [ok |-> FALSE, y |-> 0, m |-> 0, d |-> 0]

\* A date argument as the routine holds it: the string it was given, or the int
\* that string_to_unix_timestamp made of it.
StrVal(chars) == [isInt |-> FALSE, int |-> 0, str |-> chars]

IntVal(n) == [isInt |-> TRUE, int |-> n, str |-> << >>]

\* Python's  v == ''
IsEmptyStr(v) == ~v.isInt /\ v.str = << >>

\* string_to_unix_timestamp at host offset off: midnight local time of the date,
\* as seconds since the epoch.  [ok |-> FALSE] stands for strptime's ValueError.
\* datetime.timestamp of the naive datetime p that strptime returned
timestamp(p, off) ==
    IF p.ok THEN [ok |-> TRUE, val |-> DaysFromCivil(p.y, p.m, p.d) * 86400 - off]
    ELSE [ok |-> FALSE, val |-> 0]

\* Fault: the empty string taken for the epoch instead of raising ValueError.
string_to_unix_timestamp_empty_is_epoch(date_string, off) ==
    IF date_string = << >> THEN [ok |-> TRUE, val |-> 0]
    ELSE timestamp(strptime(date_string), off)

string_to_unix_timestamp(date_string, off) == timestamp(strptime(date_string), off)

----------------------------------------------------------------------------
(* JSON values and DataFrames *)

\* A cell: a JSON number, a JSON object (a sequence of <<key, cell>> pairs in the
\* order the decoder met them; Python dicts keep that order), a pandas Timestamp
\* <<year, month, day, hour, minute, second>>, or NaN.
Num(n) == [k |-> "num", n |-> n, o |-> << >>, d |-> << >>]

Obj(pairs) == [k |-> "obj", n |-> 0, o |-> pairs, d |-> << >>]

Dt(d) == [k |-> "dt", n |-> 0, o |-> << >>, d |-> d]

NaN == [k |-> "NaN", n |-> 0, o |-> << >>, d |-> << >>]

\* What get_api_request hands back: a decoded JSON array of objects, a decoded JSON
\* object, or None.
JsonList(items) == [kind |-> "list", list |-> items, dict |-> << >>]

JsonDict(pairs) == [kind |-> "dict", list |-> << >>, dict |-> pairs]

None == [kind |-> "None", list |-> << >>, dict |-> << >>]

Keys(dict) == [i \in 1..Len(dict) |-> dict[i][1]]

HasKey(dict, key) == \E i \in 1..Len(dict) : dict[i][1] = key

\* dict[key] for a key the dict has
Get(dict, key) == dict[CHOOSE i \in 1..Len(dict) : dict[i][1] = key][2]

\* Python's  left | right  on dicts: left's keys keep their place and take right's
\* value on a collision, right's new keys follow in right's order
RECURSIVE DictMerge(_, _)
DictMerge(left, right) ==
    IF right = << >> THEN left
    ELSE LET kv == right[1]
             l2 == IF HasKey(left, kv[1])
                   THEN [i \in 1..Len(left) |-> IF left[i][1] = kv[1] THEN kv ELSE left[i]]
                   ELSE Append(left, kv)
         IN  DictMerge(l2, Tail(right))

RECURSIVE AppendNew(_, _)
AppendNew(cols, keys) ==
    IF keys = << >> THEN cols
    ELSE AppendNew(IF Contains(cols, keys[1]) THEN cols ELSE Append(cols, keys[1]), Tail(keys))

\* the columns pandas gives a list of dicts: the keys in order of first appearance
RECURSIVE UnionKeys(_, _)
UnionKeys(list, cols) ==
    IF list = << >> THEN cols ELSE UnionKeys(Tail(list), AppendNew(cols, Keys(list[1])))

EmptyFrame == [columns |-> << >>, rows |-> << >>]

\* pd.DataFrame(list of dicts): one row per dict, cells aligned by key, NaN where a
\* dict lacks the key
FrameWith(cols, list) ==
    [columns |-> cols,
     rows |-> [r \in 1..Len(list) |->
                 [c \in 1..Len(cols) |->
                    IF HasKey(list[r], cols[c]) THEN Get(list[r], cols[c]) ELSE NaN]]]

DataFrameOfRecords(list) == FrameWith(UnionKeys(list, << >>), list)

\* pd.to_datetime(cell, unit='s') of a number of seconds since the epoch (UTC)
Timestamp(ymd, rem) ==
    Dt(<< ymd[1], ymd[2], ymd[3], rem \div 3600, (rem % 3600) \div 60, rem % 60 >>)

to_datetime(cell) ==
    IF cell.k = "num" THEN Timestamp(CivilFromDays(cell.n \div 86400), cell.n % 86400)
    ELSE cell

\* df['t'] = pd.to_datetime(df['t'], unit='s'), for a frame that has column 't'
ConvertT(frame) ==
    [frame EXCEPT !.rows =
        [r \in 1..Len(frame.rows) |->
            [j \in 1..Len(frame.columns) |->
                IF frame.columns[j] = "t" THEN to_datetime(frame.rows[r][j])
                ELSE frame.rows[r][j]]]]

\* df[names]: the named columns in the order asked
SelectColumns(frame, names) ==
    [columns |-> names,
     rows |-> [r \in 1..Len(frame.rows) |->
                 [j \in 1..Len(names) |-> frame.rows[r][IndexOf(frame.columns, names[j])]]]]

Raised(exc) == [exc |-> exc, df |-> EmptyFrame]

Returned(frame) == [exc |-> "none", df |-> frame]

\* The three statements every scalar metric method ends with:
\*   df = pd.DataFrame(json_object); df['t'] = pd.to_datetime(df['t'], unit='s');
\*   df.columns = names
\* pd.DataFrame(None) and pd.DataFrame([]) are empty frames with no columns, on which
\* df['t'] raises KeyError; pd.DataFrame of a dict of scalars raises ValueError; the
\* assignment to df.columns raises ValueError on a length mismatch.
\* Fault: an empty frame handed back as it is (if df.empty: return df).
RenameScalar_empty_returned(frame, names) ==
    IF frame.rows = << >> THEN Returned(frame)
    ELSE IF ~Contains(frame.columns, "t") THEN Raised("KeyError")
    ELSE IF Len(frame.columns) # Len(names) THEN Raised("ValueError")
    ELSE Returned([ConvertT(frame) EXCEPT !.columns = names])

RenameScalar(frame, names) ==
    IF ~Contains(frame.columns, "t") THEN Raised("KeyError")
    ELSE IF Len(frame.columns) # Len(names) THEN Raised("ValueError")
    ELSE Returned([ConvertT(frame) EXCEPT !.columns = names])

ReshapeScalar(json, names) ==
    IF json.kind = "dict" /\ json.dict # << >> THEN Raised("ValueError")
    ELSE RenameScalar(IF json.kind = "list" THEN DataFrameOfRecords(json.list) ELSE EmptyFrame,
                      names)

\* {'t': data['t']} | data['o'] for one point: KeyError when a key is missing
FlattenFails(data) == ~HasKey(data, "t") \/ ~HasKey(data, "o")

\* data['o'] is not a dict:  dict | float  raises TypeError
FlattenTypeError(data) == ~FlattenFails(data) /\ Get(data, "o").k # "obj"

Flatten(data) == DictMerge(<< << "t", Get(data, "t") >> >>, Get(data, "o").o)

\* get_ohlc's reshaping:
\*   df = pd.DataFrame([{'t': data['t']} | data['o'] for data in json_object])
\*   df['t'] = pd.to_datetime(df['t'], unit='s')
\*   df.columns = ['datetime', 'close', 'high', 'low', 'open']
\*   df = df[['datetime', 'open', 'high', 'low', 'close']]
\* Iterating None raises TypeError; iterating a dict yields its keys, strings, on
\* which data['t'] raises TypeError.
RenameOhlc(frame) ==
    IF ~Contains(frame.columns, "t") THEN Raised("KeyError")
    ELSE IF Len(frame.columns) # 5 THEN Raised("ValueError")
    ELSE Returned(SelectColumns(
             [ConvertT(frame) EXCEPT !.columns = << "datetime", "close", "high", "low", "open" >>],
             << "datetime", "open", "high", "low", "close" >>))

\* the first point the comprehension fails on, 0 when it fails on none
FirstBad(list) ==
    IF \E i \in 1..Len(list) : FlattenFails(list[i]) \/ FlattenTypeError(list[i])
    THEN CHOOSE i \in 1..Len(list) :
            /\ FlattenFails(list[i]) \/ FlattenTypeError(list[i])
            /\ \A j \in 1..(i - 1) : ~(FlattenFails(list[j]) \/ FlattenTypeError(list[j]))
    ELSE 0

ReshapeOhlc(json) ==
    IF json.kind = "None" THEN Raised("TypeError")
    ELSE IF json.kind = "dict" /\ json.dict # << >> THEN Raised("TypeError")
    ELSE IF FirstBad(json.list) # 0
    THEN Raised(IF FlattenFails(json.list[FirstBad(json.list)]) THEN "KeyError" ELSE "TypeError")
    ELSE RenameOhlc(DataFrameOfRecords([i \in 1..Len(json.list) |-> Flatten(json.list[i])]))

----------------------------------------------------------------------------
(* get_api_request *)

\* The date block of get_api_request:
\*   try:    from_date = string_to_unix_timestamp(from_date)
\*           to_date = string_to_unix_timestamp(to_date)
\*   except ValueError as err:
\*           if from_date == '' or to_date == '': pass
\*           else: print(...)
\* The first conversion that raises leaves the try block: to_date is not converted
\* when from_date does not parse, and the handler reads from_date after its
\* assignment when only to_date does not parse.
\* Fault: the handler's test written with `and`: silent only when both are empty.
DateBlock_and(from_date, to_date, f, t) ==
    LET fv == IF f.ok THEN IntVal(f.val) ELSE StrVal(from_date)
        tv == IF f.ok /\ t.ok THEN IntVal(t.val) ELSE StrVal(to_date)
    IN  [from_date |-> fv,
         to_date   |-> tv,
         failed    |-> ~f.ok \/ ~t.ok,
         printed   |-> (~f.ok \/ ~t.ok) /\ ~(IsEmptyStr(fv) /\ IsEmptyStr(tv))]

\* f and t are what string_to_unix_timestamp makes of from_date and of to_date.
DateBlock(from_date, to_date, f, t) ==
    LET fv == IF f.ok THEN IntVal(f.val) ELSE StrVal(from_date)
        tv == IF f.ok /\ t.ok THEN IntVal(t.val) ELSE StrVal(to_date)
    IN  [from_date |-> fv,
         to_date   |-> tv,
         failed    |-> ~f.ok \/ ~t.ok,
         printed   |-> (~f.ok \/ ~t.ok) /\ ~(IsEmptyStr(fv) \/ IsEmptyStr(tv))]

ParseDates(from_date, to_date, off) ==
    DateBlock(from_date, to_date,
              string_to_unix_timestamp(from_date, off), string_to_unix_timestamp(to_date, off))

\* {**basic_param, **kwargs}: kwargs win on a key both have
MergeParams(basic_param, kwargs) ==
    [key \in DOMAIN basic_param \cup DOMAIN kwargs |->
        IF key \in DOMAIN kwargs THEN kwargs[key] ELSE basic_param[key]]

NoRequest == [issued |-> FALSE, url |-> << >>, params |-> << >>]

\* get_api_request up to and including the call of requests.get
\* dates is what the date block left in from_date and to_date.
SendGet(me, dates, symbol, category, interval, topic, kwargs) ==
    [raised  |-> FALSE,
     printed |-> IF dates.printed THEN << "date format" >> ELSE << >>,
     request |-> [issued |-> TRUE,
                  url    |-> << me.base_url, "v1/metrics/", category, "/", topic >>,
                  params |-> MergeParams([a |-> symbol, api_key |-> me.api_key,
                                          s |-> dates.from_date, u |-> dates.to_date,
                                          i |-> interval, f |-> "JSON"], kwargs)]]

ApiSend(me, from_date, to_date, symbol, category, interval, topic, kwargs, off) ==
    IF symbol = "" THEN [raised |-> TRUE, printed |-> << >>, request |-> NoRequest]
    ELSE SendGet(me, ParseDates(from_date, to_date, off), symbol, category, interval, topic,
                 kwargs)

NoResponse == [kind |-> "none", status |-> 0, body |-> None]

InvalidBody == [kind |-> "invalid", list |-> << >>, dict |-> << >>]

Unset == [kind |-> "unset", list |-> << >>, dict |-> << >>]

\* Fault: x.raise_for_status() called inside the try, so that every status from 400
\* up becomes an HTTPError that the first except clause prints.
ApiReceive_raise_for_status(resp) ==
    IF resp.kind = "HTTPError" \/ (resp.kind = "response" /\ resp.status >= 400)
    THEN [exc |-> "none", value |-> None, printed |-> << "HTTP error occurred" >>]
    ELSE IF resp.kind # "response"
    THEN [exc |-> "none", value |-> None, printed |-> << "Other error occurred" >>]
    ELSE IF resp.body.kind = "invalid"
    THEN [exc |-> "JSONDecodeError", value |-> None, printed |-> << >>]
    ELSE [exc |-> "none", value |-> resp.body, printed |-> << >>]

\* Fault: the second except clause missing, so that only HTTPError is caught.
ApiReceive_http_error_only(resp) ==
    IF resp.kind = "HTTPError"
    THEN [exc |-> "none", value |-> None, printed |-> << "HTTP error occurred" >>]
    ELSE IF resp.kind # "response"
    THEN [exc |-> resp.kind, value |-> None, printed |-> << >>]
    ELSE IF resp.status = 400 THEN [exc |-> "RuntimeError", value |-> None, printed |-> << >>]
    ELSE IF resp.status = 404 THEN [exc |-> "ValueError", value |-> None, printed |-> << >>]
    ELSE IF resp.body.kind = "invalid"
    THEN [exc |-> "JSONDecodeError", value |-> None, printed |-> << >>]
    ELSE [exc |-> "none", value |-> resp.body, printed |-> << >>]

\* get_api_request from the return of requests.get on: the two except clauses
\* print and fall off the end of the function (None); the else clause raises on
\* 400 and 404 outside the try, and returns x.json() otherwise, which raises
\* JSONDecodeError on a body that is not JSON.
ApiReceive(resp) ==
    IF resp.kind = "HTTPError"
    THEN [exc |-> "none", value |-> None, printed |-> << "HTTP error occurred" >>]
    ELSE IF resp.kind # "response"
    THEN [exc |-> "none", value |-> None, printed |-> << "Other error occurred" >>]
    ELSE IF resp.status = 400 THEN [exc |-> "RuntimeError", value |-> None, printed |-> << >>]
    ELSE IF resp.status = 404 THEN [exc |-> "ValueError", value |-> None, printed |-> << >>]
    ELSE IF resp.body.kind = "invalid"
    THEN [exc |-> "JSONDecodeError", value |-> None, printed |-> << >>]
    ELSE [exc |-> "none", value |-> resp.body, printed |-> << >>]

----------------------------------------------------------------------------
(* The per-metric methods *)

\* Fault: get_issuance given get_total_fees' symbol list.
issuance_symbol_constrain_list_with_LTC == << "BTC", "ETH", "LTC" >>

issuance_symbol_constrain_list == << "BTC", "ETH" >>

inflation_rate_symbol_constrain_list == << "BTC", "ETH" >>

puell_multiple_symbol_constrain_list == << "BTC", "LTC" >>

total_fees_symbol_constrain_list == << "BTC", "ETH", "LTC" >>

ScalarMethods == {"get_close_price", "get_exchange_netflow", "get_issuance",
                  "get_inflation_rate", "get_puell_multiple", "get_total_fees"}

MetricMethods == ScalarMethods \cup {"get_ohlc"}

\* the names each scalar method assigns to df.columns
OutputColumns(m) ==
    CASE m = "get_close_price"      -> << "datetime", "close_price" >>
      [] m = "get_exchange_netflow" -> << "datetime", "volume" >>
      [] m = "get_issuance"         -> << "datetime", "issued" >>
      [] m = "get_inflation_rate"   -> << "datetime", "inflation_rate" >>
      [] m = "get_puell_multiple"   -> << "datetime", "puell_multiple" >>
      [] m = "get_total_fees"       -> << "datetime", "total_fees" >>

\* what a method does with the json_object get_api_request returned
Reshape(m, json) == IF m = "get_ohlc" THEN ReshapeOhlc(json) ELSE ReshapeScalar(json, OutputColumns(m))

\* The call ends with an exception raised at statement `at`.
Raise(exc, at, listed) ==
    /\ pc' = "done"
    /\ outcome' = exc
    /\ raisedAt' = at
    /\ errListed' = listed

\* The shape the seven methods share: the symbol check, the interval check (whose
\* message lists `listed`), then get_api_request up to requests.get.
MetricCall(m, symbols, intervals, listed, category, topic, kwargs, symbol, from_date, to_date, interval) ==
    /\ pc = "idle"
    /\ method' = m
    /\ args' = [symbol |-> symbol, from_date |-> from_date, to_date |-> to_date,
                interval |-> interval, kwargs |-> kwargs]
    /\ UNCHANGED <<self, tz, response, json_object, df>>
    /\ IF ~Contains(symbols, symbol)
       THEN /\ Raise("ValueError", "symbol check", symbols)
            /\ UNCHANGED <<request, gets, log>>
       ELSE IF ~Contains(intervals, interval)
       THEN /\ Raise("ValueError", "interval check", listed)
            /\ UNCHANGED <<request, gets, log>>
       ELSE \E snd \in {ApiSend(self, from_date, to_date, symbol, category, interval, topic,
                                 kwargs, tz)} :
                IF snd.raised
                THEN /\ Raise("Exception", "empty symbol", << >>)
                     /\ UNCHANGED <<request, gets, log>>
                ELSE /\ pc' = "awaiting"
                     /\ request' = snd.request
                     /\ gets' = gets + 1
                     /\ log' = log \o snd.printed
                     /\ UNCHANGED <<outcome, raisedAt, errListed>>

get_close_price(symbol, from_date, to_date, interval) ==
    MetricCall("get_close_price", supported_type, supported_interval,
               Slice(supported_interval, 1, Len(supported_interval)),
               "market", "price_usd_close", << >>, symbol, from_date, to_date, interval)

get_ohlc(symbol, from_date, to_date, interval) ==
    MetricCall("get_ohlc", supported_type, Slice(supported_interval, 0, 3),
               Slice(supported_interval, 0, 3),
               "market", "price_usd_ohlc", << >>, symbol, from_date, to_date, interval)

get_exchange_netflow(symbol, from_date, to_date, interval, exchange) ==
    MetricCall("get_exchange_netflow", supported_type, Slice(supported_interval, 0, 3),
               Slice(supported_interval, 0, 3),
               "transactions", "transfers_volume_exchanges_net", [e |-> exchange],
               symbol, from_date, to_date, interval)

get_issuance(symbol, from_date, to_date, interval) ==
    MetricCall("get_issuance", issuance_symbol_constrain_list, Slice(supported_interval, 0, 3),
               Slice(supported_interval, 1, 3),
               "supply", "issued", << >>, symbol, from_date, to_date, interval)

get_inflation_rate(symbol, from_date, to_date, interval) ==
    MetricCall("get_inflation_rate", inflation_rate_symbol_constrain_list,
               Slice(supported_interval, 0, 3), Slice(supported_interval, 1, 3),
               "supply", "inflation_rate", << >>, symbol, from_date, to_date, interval)

get_puell_multiple(symbol, from_date, to_date, interval) ==
    MetricCall("get_puell_multiple", puell_multiple_symbol_constrain_list,
               Slice(supported_interval, 0, 2), Slice(supported_interval, 1, 2),
               "indicators", "puell_multiple", << >>, symbol, from_date, to_date, interval)

get_total_fees(symbol, from_date, to_date, interval) ==
    MetricCall("get_total_fees", total_fees_symbol_constrain_list, supported_interval,
               supported_interval,
               "fees", "volume_sum", << >>, symbol, from_date, to_date, interval)

\* A caller invoking the shared routine itself.
get_api_request(from_date, to_date, symbol, category, interval, topic) ==
    /\ pc = "idle"
    /\ method' = "get_api_request"
    /\ args' = [symbol |-> symbol, from_date |-> from_date, to_date |-> to_date,
                interval |-> interval, kwargs |-> << >>]
    /\ UNCHANGED <<self, tz, response, json_object, df>>
    /\ \E snd \in {ApiSend(self, from_date, to_date, symbol, category, interval, topic,
                          << >>, tz)} :
           IF snd.raised
           THEN /\ Raise("Exception", "empty symbol", << >>)
                /\ UNCHANGED <<request, gets, log>>
           ELSE /\ pc' = "awaiting"
                /\ request' = snd.request
                /\ gets' = gets + 1
                /\ log' = log \o snd.printed
                /\ UNCHANGED <<outcome, raisedAt, errListed>>

\* requests.get has produced resp: the rest of get_api_request, then the rest of
\* the method that called it.
Complete(resp) ==
    /\ pc = "awaiting"
    /\ pc' = "done"
    /\ response' = resp
    /\ \E rcv \in {ApiReceive(resp)} :
           /\ log' = log \o rcv.printed
           /\ IF rcv.exc # "none"
              THEN /\ outcome' = rcv.exc
                   /\ raisedAt' = IF rcv.exc = "JSONDecodeError" THEN "x.json()" ELSE "status check"
                   /\ UNCHANGED <<json_object, df>>
              ELSE /\ json_object' = rcv.value
                   /\ IF method = "get_api_request"
                      THEN /\ outcome' = "returned"
                           /\ UNCHANGED <<raisedAt, df>>
                      ELSE \E rs \in {Reshape(method, rcv.value)} :
                               IF rs.exc # "none"
                               THEN /\ outcome' = rs.exc
                                    /\ raisedAt' = "reshape"
                                    /\ UNCHANGED df
                               ELSE /\ outcome' = "returned"
                                    /\ df' = rs.df
                                    /\ UNCHANGED raisedAt
    /\ UNCHANGED <<self, tz, method, args, request, gets, errListed>>

\* requests.get raised: a connection-level failure (or requests' HTTPError)
TransportFailure(excClass) == Complete([kind |-> excClass, status |-> 0, body |-> None])

\* requests.get returned a response with this status and body
HttpResponse(status, body) == Complete([kind |-> "response", status |-> status, body |-> body])

\* The caller has taken the result; the next call starts afresh.
Return ==
    /\ pc = "done"
    /\ pc' = "idle"
    /\ method' = "none"
    /\ args' = << >>
    /\ request' = NoRequest
    /\ gets' = 0
    /\ response' = NoResponse
    /\ log' = << >>
    /\ json_object' = Unset
    /\ outcome' = "none"
    /\ raisedAt' = "none"
    /\ errListed' = << >>
    /\ df' = EmptyFrame
    /\ UNCHANGED <<self, tz>>

----------------------------------------------------------------------------
(* The environment: callers' arguments and the API's answers *)

Symbols == {"", "BTC", "ETH", "LTC", "AAVE", "DOGE"}

Intervals == Range(supported_interval) \cup {"5m"}

\* symbols of the calls made to get_api_request itself
DirectSymbols == {"", "BTC"}

Exchanges == {"aggregated", "binance"}

Chars(a, b, c, d, e, f, g, h, i, j) == << a, b, c, d, e, f, g, h, i, j >>

Date_2020_01_01 == Chars("2", "0", "2", "0", "-", "0", "1", "-", "0", "1")

Date_2021_01_01 == Chars("2", "0", "2", "1", "-", "0", "1", "-", "0", "1")

\* 2021 is not a leap year
Date_2021_02_29 == Chars("2", "0", "2", "1", "-", "0", "2", "-", "2", "9")

Date_slashes == Chars("2", "0", "2", "0", "/", "0", "1", "/", "0", "1")

Dates == {<< >>, Date_2020_01_01, Date_2021_01_01, Date_2021_02_29, Date_slashes}

\* UTC and UTC+8
Offsets == {0, 28800}

T1 == Num(1577836800)

T2 == Num(1577923200)

ScalarPoints ==
    { << << "t", T1 >>, << "v", Num(7196) >> >>,
      << << "v", Num(7200) >>, << "t", T2 >> >> }

OhlcPoints ==
    { << << "t", T1 >>,
         << "o", Obj(<< << "c", Num(7196) >>, << "h", Num(7254) >>,
                        << "l", Num(7174) >>, << "o", Num(7195) >> >>) >> >>,
      << << "t", T2 >>,
         << "o", Obj(<< << "o", Num(7200) >>, << "h", Num(7212) >>,
                        << "l", Num(6935) >>, << "c", Num(6985) >> >>) >> >> }

SeqsUpTo(S, n) == UNION {[1..k -> S] : k \in 0..n}

\* an error object, and a body that is not JSON
ErrorBodies == {JsonDict(<< << "error", Num(1) >> >>), InvalidBody}

Statuses == {200, 400, 404, 500}

TransportErrors == {"ConnectionError", "Timeout", "HTTPError"}

----------------------------------------------------------------------------
(* The specification *)

Init ==
    /\ self \in {[base_url |-> "https://api.glassnode.com/", api_key |-> "KEY"]}
    /\ tz \in Offsets
    /\ pc = "idle"
    /\ method = "none"
    /\ args = << >>
    /\ request = NoRequest
    /\ gets = 0
    /\ response = NoResponse
    /\ log = << >>
    /\ json_object = Unset
    /\ outcome = "none"
    /\ raisedAt = "none"
    /\ errListed = << >>
    /\ df = EmptyFrame

\* what the API answers on a topic: arrays of OHLC points on price_usd_ohlc, arrays
\* of scalar points elsewhere; on any topic an error object or a body that is not JSON
BodiesFor(m) ==
    {JsonList(l) : l \in SeqsUpTo(IF m = "get_ohlc" THEN OhlcPoints ELSE ScalarPoints, MaxPoints)}
    \cup ErrorBodies

Next ==
    \/ /\ pc = "idle"
       /\ \E symbol \in Symbols, from_date \in Dates, to_date \in Dates, interval \in Intervals :
             get_close_price(symbol, from_date, to_date, interval)
    \/ /\ pc = "idle"
       /\ \E symbol \in Symbols, from_date \in Dates, to_date \in Dates, interval \in Intervals :
             get_ohlc(symbol, from_date, to_date, interval)
    \/ /\ pc = "idle"
       /\ \E symbol \in Symbols, from_date \in Dates, to_date \in Dates, interval \in Intervals,
             exchange \in Exchanges :
             get_exchange_netflow(symbol, from_date, to_date, interval, exchange)
    \/ /\ pc = "idle"
       /\ \E symbol \in Symbols, from_date \in Dates, to_date \in Dates, interval \in Intervals :
             get_issuance(symbol, from_date, to_date, interval)
    \/ /\ pc = "idle"
       /\ \E symbol \in Symbols, from_date \in Dates, to_date \in Dates, interval \in Intervals :
             get_inflation_rate(symbol, from_date, to_date, interval)
    \/ /\ pc = "idle"
       /\ \E symbol \in Symbols, from_date \in Dates, to_date \in Dates, interval \in Intervals :
             get_puell_multiple(symbol, from_date, to_date, interval)
    \/ /\ pc = "idle"
       /\ \E symbol \in Symbols, from_date \in Dates, to_date \in Dates, interval \in Intervals :
             get_total_fees(symbol, from_date, to_date, interval)
    \/ /\ pc = "idle"
       /\ \E symbol \in DirectSymbols, from_date \in Dates, to_date \in Dates :
             get_api_request(from_date, to_date, symbol, "market", "24h", "price_usd_close")
    \/ /\ pc = "awaiting"
       /\ \E excClass \in TransportErrors : TransportFailure(excClass)
    \/ /\ pc = "awaiting"
       /\ \E status \in Statuses :
             \E body \in (IF status \in {400, 404} THEN {InvalidBody} ELSE BodiesFor(method)) :
                HttpResponse(status, body)
    \/ Return

Spec == Init /\ [][Next]_vars

----------------------------------------------------------------------------
(* Properties *)

\* the interval list and the per-method prefix lengths and symbol sets of the
\* documented method table
TableIntervals == << "", "24h", "1h", "10m", "1w", "1month" >>

TablePrefix(m) ==
    CASE m \in {"get_close_price", "get_total_fees"} -> 6
      [] m \in {"get_ohlc", "get_exchange_netflow", "get_issuance", "get_inflation_rate"} -> 3
      [] m = "get_puell_multiple" -> 2

TableIntervalSet(m) == {TableIntervals[i] : i \in 1..TablePrefix(m)}

TableSymbolSet(m) ==
    CASE m \in {"get_issuance", "get_inflation_rate"} -> {"BTC", "ETH"}
      [] m = "get_puell_multiple" -> {"BTC", "LTC"}
      [] m = "get_total_fees" -> {"BTC", "ETH", "LTC"}
      [] OTHER -> Range(supported_type)

InCall == pc # "idle"

InMetricCall == pc # "idle" /\ method \in MetricMethods

RejectedByCheck == raisedAt \in {"symbol check", "interval check"}

\* C1: a per-metric call whose symbol is outside the method's symbol set, or whose
\* interval is outside the method's prefix of the interval list, is never inside
\* requests.get and ends with ValueError (InvalidArgument) raised by a check, with
\* no GET issued at any point of the call.
C1_RejectedBeforeAnyGet ==
    (InMetricCall /\ (args.symbol \notin TableSymbolSet(method)
                      \/ args.interval \notin TableIntervalSet(method)))
    => /\ pc = "done"
       /\ outcome = "ValueError"
       /\ RejectedByCheck
       /\ gets = 0
       /\ ~request.issued
       /\ response = NoResponse

\* get_issuance(symbol='LTC') is rejected with no GET issued
C1_Witness ==
    /\ pc = "done" /\ method = "get_issuance" /\ args.symbol = "LTC"
    /\ args.interval = "24h"
    /\ outcome = "ValueError" /\ raisedAt = "symbol check" /\ gets = 0

GotStatus == pc = "done" /\ response.kind = "response"

\* one of the routine's two except clauses ran
HandlerPrinted == Contains(log, "Other error occurred") \/ Contains(log, "HTTP error occurred")

\* C2: once the GET has completed with a status, 400 ends the call with
\* RuntimeError (BadRequest), 404 with ValueError (NotFound), both raised by the
\* status check and not printed by the routine's handlers; every other status with
\* a JSON body makes get_api_request give back that body unchanged.
C2_StatusClassification ==
    GotStatus =>
       /\ response.status = 400 =>
             outcome = "RuntimeError" /\ raisedAt = "status check" /\ ~HandlerPrinted
       /\ response.status = 404 =>
             outcome = "ValueError" /\ raisedAt = "status check" /\ ~HandlerPrinted
       /\ (response.status \notin {400, 404} /\ response.body.kind \in {"list", "dict"}) =>
             /\ json_object = response.body
             /\ method = "get_api_request" => outcome = "returned"

\* a 500 answer with a JSON array is given back by get_api_request as it came
C2_Witness ==
    /\ GotStatus /\ method = "get_api_request" /\ response.status = 500
    /\ response.body.kind = "list" /\ Len(response.body.list) = 2
    /\ outcome = "returned" /\ json_object = response.body

WellFormed(date_string) == strptime(date_string).ok

\* C3: whenever the routine issues the GET, a well-formed from_date is sent as its
\* unix timestamp in s and a well-formed to_date as its unix timestamp in u,
\* whatever the other date is.
C3_WellFormedDatesSentAsTimestamps ==
    (InCall /\ request.issued) =>
       /\ WellFormed(args.from_date) =>
             request.params["s"] = IntVal(string_to_unix_timestamp(args.from_date, tz).val)
       /\ WellFormed(args.to_date) =>
             request.params["u"] = IntVal(string_to_unix_timestamp(args.to_date, tz).val)

EnteredRoutine == InCall /\ ~RejectedByCheck

ParseFailed == ~WellFormed(args.from_date) \/ ~WellFormed(args.to_date)

DateErrorLogged == Contains(log, "date format")

C5_EmptyDatesSentAsEmpty ==
    (EnteredRoutine /\ args.symbol # "" /\ args.from_date = << >> /\ args.to_date = << >>) =>
       /\ request.issued
       /\ gets = 1
       /\ request.params["s"] = StrVal(<< >>)
       /\ request.params["u"] = StrVal(<< >>)
       /\ ~DateErrorLogged
       /\ outcome # "none" => raisedAt \in {"none", "status check", "x.json()", "reshape"}

C5_Witness ==
    /\ pc = "awaiting" /\ method = "get_close_price" /\ args.symbol = "BTC"
    /\ args.from_date = << >> /\ args.to_date = << >>
    /\ request.params["s"] = StrVal(<< >>) /\ request.params["u"] = StrVal(<< >>)

TransportFailed == pc = "done" /\ response.kind \in TransportErrors

\* C6: when requests.get raises, get_api_request prints the failure, gives back
\* None and raises nothing: a direct caller gets a normal return, and an exception
\* a metric method then ends with comes from its own reshaping.
C6_TransportFailureSwallowed ==
    TransportFailed =>
       /\ json_object = None
       /\ HandlerPrinted
       /\ method = "get_api_request" => outcome = "returned"
       /\ method # "get_api_request" => raisedAt = "reshape"

C6_Witness ==
    /\ TransportFailed /\ response.kind = "ConnectionError" /\ method = "get_api_request"
    /\ json_object = None /\ outcome = "returned"
    /\ log = << "Other error occurred" >>

GotJsonList ==
    /\ GotStatus /\ response.status \notin {400, 404}
    /\ response.body.kind = "list"

Point(i) == response.body.list[i]

\* the row the OHLC point p is documented to become
OhlcRow(p) ==
    << to_datetime(Get(p, "t")), Get(Get(p, "o").o, "o"), Get(Get(p, "o").o, "h"),
       Get(Get(p, "o").o, "l"), Get(Get(p, "o").o, "c") >>

\* C7 (for responses of at least one point): get_ohlc returns one row per point in
\* response order with columns datetime, open, high, low, close, where open is the
\* value under the nested key 'o', high under 'h', low under 'l', close under 'c'
\* and datetime the conversion of t, in whichever order the nested keys arrive.
C7_OhlcColumnsByKey ==
    (GotJsonList /\ method = "get_ohlc" /\ Len(response.body.list) > 0) =>
       /\ outcome = "returned"
       /\ df.columns = << "datetime", "open", "high", "low", "close" >>
       /\ Len(df.rows) = Len(response.body.list)
       /\ \A i \in 1..Len(response.body.list) : df.rows[i] = OhlcRow(Point(i))

\* the metric column each scalar method is documented to produce
TableColumn(m) ==
    CASE m = "get_close_price"      -> "close_price"
      [] m = "get_exchange_netflow" -> "volume"
      [] m = "get_issuance"         -> "issued"
      [] m = "get_inflation_rate"   -> "inflation_rate"
      [] m = "get_puell_multiple"   -> "puell_multiple"
      [] m = "get_total_fees"       -> "total_fees"

\* C8: for every scalar metric method and every response that is a list of points
\* {t, v}, the returned table has one row per point in response order and the two
\* columns datetime and the metric's name, each row holding the conversion of the
\* point's t and the point's v.
C8_ScalarTable ==
    (GotJsonList /\ method \in ScalarMethods) =>
       /\ outcome = "returned"
       /\ df.columns = << "datetime", TableColumn(method) >>
       /\ Len(df.rows) = Len(response.body.list)
       /\ \A i \in 1..Len(response.body.list) :
             df.rows[i] = << to_datetime(Get(Point(i), "t")), Get(Point(i), "v") >>

\* C9: the message of the ValueError a per-metric check raises lists exactly the
\* values that check accepts.
C9_MessageListsAcceptedSet ==
    (InMetricCall /\ RejectedByCheck) =>
       Range(errListed) = IF raisedAt = "symbol check" THEN TableSymbolSet(method)
                          ELSE TableIntervalSet(method)

\* C10: a per-metric method whose GET failed at transport level ends with an
\* exception and returns no table; a table is returned only after a response.
C10_NoTableWithoutResponse ==
    InMetricCall =>
       /\ TransportFailed =>
             /\ json_object = None
             /\ outcome \in {"KeyError", "TypeError"}
             /\ df = EmptyFrame
       /\ outcome = "returned" =>
             response.kind = "response" /\ response.body.kind \in {"list", "dict"}

C10_Witness ==
    /\ TransportFailed /\ response.kind = "ConnectionError" /\ method = "get_close_price"
    /\ json_object = None /\ outcome = "KeyError" /\ raisedAt = "reshape"

====
